---- MODULE Spec2Model ----
(***************************************************************************)
(* Settlement engine of trip-accountant (package trip): Trip.AddExpense,   *)
(* Expense.Settle, Settlement.upsertAmount and Trip.Complete.              *)
(*                                                                         *)
(* An email address is a sequence of one-character strings, so that        *)
(* strings.ToLower and fmt.Sprintf("%s>%s", ...) are computed character by *)
(* character as the code computes them.  A Go map is a function whose      *)
(* DOMAIN is the set of keys present; a read of a missing key yields 0.    *)
(***************************************************************************)
EXTENDS Integers, Sequences, FiniteSets, TLC

(***************************************************************************)
(* Bounds of the model.                                                    *)
(***************************************************************************)
\* Spec, SpecAny: the largest amount paid, the number of expenses of the trip.
MaxPaid == 3
MaxExpenses == 2
\* SpecSettle: the participants of the expense, the largest amount paid.
MaxParticipants == 4
MaxSettlePaid == 4
\* SpecAvg: the largest small total, and the largest distance of a total
\* above 2^52 and above 2^53.
MaxSmallTotal == 12
MaxOffset == 8
\* SpecApi, SpecPkg: the rows of trip and of expense, the participants named
\* in a request, the requests in progress, the latest time.
MaxTrips == 2
MaxStoreExpenses == 1
MaxInflight == 2
MaxClock == 2

(***************************************************************************)
(* Email addresses.  The code validates none of them (user.go:50-62), so   *)
(* an address may hold any character, '>' included.                        *)
(***************************************************************************)
EmailOrder == << <<"a">>, <<">", "a">>, <<"a", ">">>, <<"b">>, <<"c">> >>

EmailIndex(email) == CHOOSE n \in 1..Len(EmailOrder) : EmailOrder[n] = email

FirstEmails(n) ==
    {EmailOrder[m] : m \in 1..(IF n < Len(EmailOrder) THEN n ELSE Len(EmailOrder))}

\* The members (owner and participants) of the trip of Spec and SpecAny.
TripMembers == FirstEmails(Len(EmailOrder) - 2)

\* The members of the trip of SpecSettle.
SettleMembers == FirstEmails(MaxParticipants)

\* Addresses as a caller may write them: upper-case variants and a stranger.
RawEmails == TripMembers \cup {<<"A">>, <<"z">>}

ToLowerChar(ch) == IF ch = "A" THEN "a" ELSE ch

normalizeEmail(email) == [n \in DOMAIN email |-> ToLowerChar(email[n])]

(***************************************************************************)
(* Go maps.                                                                *)
(***************************************************************************)
EmptyMap == [x \in {} |-> 0]

MapGet(m, key) == IF key \in DOMAIN m THEN m[key] ELSE 0

MapPut(m, key, val) == (key :> val) @@ m

MapDelete(m, key) == [x \in DOMAIN m \ {key} |-> m[x]]

\* s[payer][payee] where either key may be missing (a nil inner map reads 0).
Amount(s, payer, payee) ==
    IF payer \in DOMAIN s THEN MapGet(s[payer], payee) ELSE 0

\* delete(s[payer], payee): a no-op on a nil inner map.
DeletePayment(s, payer, payee) ==
    IF payer \in DOMAIN s
    THEN [s EXCEPT ![payer] = MapDelete(s[payer], payee)]
    ELSE s

\* The (payer, payee, amount) entries a Settlement holds.
Entries(s) ==
    {<<k, rcv, s[k][rcv]>> : <<k, rcv>> \in
        UNION {{<<k2, r2>> : r2 \in DOMAIN s[k2]} : k2 \in DOMAIN s}}

(***************************************************************************)
(* Trip.AddExpense                                                         *)
(***************************************************************************)
RECURSIVE SumPaid(_)
SumPaid(ps) == IF ps = <<>> THEN 0 ELSE ps[1].Paid + SumPaid(Tail(ps))

\* The Expense AddExpense builds from the caller's list, given emailLookup.
NewExpense(lk, participants) ==
    LET ps == [n \in DOMAIN participants |->
                 [Email  |-> normalizeEmail(participants[n].Email),
                  UserID |-> lk[normalizeEmail(participants[n].Email)],
                  Paid   |-> participants[n].Paid]]
    IN  [Participants |-> ps, amount |-> SumPaid(ps)]

AllKnown(lk, participants) ==
    \A n \in DOMAIN participants :
        normalizeEmail(participants[n].Email) \in DOMAIN lk

(***************************************************************************)
(* Expense.Settle                                                          *)
(***************************************************************************)
\* Less with the comparison the wrong way round (ascending order).
AscendingLess(x, y) == x.Paid < y.Paid

\* ByAmount.Less: the one who paid the most comes first.
Less(x, y) == x.Paid > y.Paid

\* sort.Sort on at most 12 elements is insertionSort: element n moves left
\* while it is Less than its left neighbour.
RECURSIVE InsertLeft(_, _)
InsertLeft(ps, n) ==
    IF n > 1 /\ Less(ps[n], ps[n - 1])
    THEN InsertLeft([ps EXCEPT ![n] = ps[n - 1], ![n - 1] = ps[n]], n - 1)
    ELSE ps

RECURSIVE InsertionSort(_, _)
InsertionSort(ps, n) ==
    IF n > Len(ps) THEN ps ELSE InsertionSort(InsertLeft(ps, n), n + 1)

SortByAmount(ps) == InsertionSort(ps, 2)

\* int(x) of a float64 truncates towards zero.
TruncDiv(a, b) == IF a >= 0 THEN a \div b ELSE -((-a) \div b)

\* avg := int(float64(amount)/float64(n) + 0.5), in integer arithmetic: on the
\* amounts of Spec, SpecSettle and SpecAny no float64 operation rounds
\* (AvgAgrees); Float64Avg is the same line with its roundings.
Avg(amount, n) == IF n = 0 THEN 0 ELSE TruncDiv(2 * amount + n, 2 * n)

Min(x, y) == IF x < y THEN x ELSE y

\* The amount taken as the greater of the deficit and the surplus.
MaxTransferAmount(pi, pj, a) ==
    IF a - pj.Paid > pi.Paid - a THEN a - pj.Paid ELSE pi.Paid - a

\* amount := min(avg-p[j].Paid, p[i].Paid-avg)
TransferAmount(pi, pj, a) == Min(a - pj.Paid, pi.Paid - a)

\* The two comparisons made non-strict (>= for >, <= for <).
LaxSettleBranch(pi, pj, a) ==
    IF pi.Paid >= a
    THEN IF pj.Paid <= a THEN "pay" ELSE "decJ"
    ELSE "incI"

\* Which branch of the loop body runs for p[i], p[j].
SettleBranch(pi, pj, a) ==
    IF pi.Paid > a
    THEN IF pj.Paid < a THEN "pay" ELSE "decJ"
    ELSE "incI"

\* rslt[payer][payee] += amount, the inner map made when missing.
AddPayment(s, payer, payee, amount) ==
    LET inner == IF payer \in DOMAIN s THEN s[payer] ELSE EmptyMap
    IN  MapPut(s, payer, MapPut(inner, payee, MapGet(inner, payee) + amount))

\* One iteration of "for i < j"; st = [p, i, j, rslt], i and j count from 0.
SettleIter(st, a) ==
    LET pi == st.p[st.i + 1]
        pj == st.p[st.j + 1]
        br == SettleBranch(pi, pj, a)
        amount == TransferAmount(pi, pj, a)
    IN  IF br = "pay"
        THEN [st EXCEPT !.rslt = AddPayment(st.rslt, pj.Email, pi.Email, amount),
                        !.p = [st.p EXCEPT ![st.j + 1].Paid = pj.Paid + amount,
                                           ![st.i + 1].Paid = pi.Paid - amount]]
        ELSE IF br = "decJ"
        THEN [st EXCEPT !.j = st.j - 1]
        ELSE [st EXCEPT !.i = st.i + 1]

\* The state of Settle when its loop is entered.
SettleStart(expense) ==
    [p    |-> SortByAmount(expense.Participants),
     i    |-> 0,
     j    |-> Len(expense.Participants) - 1,
     rslt |-> EmptyMap]

SettleAvg(expense) == Avg(expense.amount, Len(expense.Participants))

\* Settle as a function: the loop run to its end.
RECURSIVE SettleRun(_, _)
SettleRun(st, a) == IF st.i < st.j THEN SettleRun(SettleIter(st, a), a) ELSE st.rslt

SettleFn(expense) == SettleRun(SettleStart(expense), SettleAvg(expense))

(***************************************************************************)
(* Settlement.upsertAmount and the body of the loops of Trip.Complete      *)
(***************************************************************************)
\* fmt.Sprintf("%s>%s", payer, payee)
Key(payer, payee) == payer \o <<">">> \o payee

\* A ledger under construction is L = [rslt, lookup]; lookup holds the keys
\* present in the map[string]bool (every value stored is true).
upsertAmount(L, payer, payee, amount) ==
    [rslt   |-> IF payer \notin DOMAIN L.rslt
                THEN MapPut(L.rslt, payer, MapPut(EmptyMap, payee, amount))
                ELSE [L.rslt EXCEPT ![payer] =
                        MapPut(@, payee, MapGet(@, payee) + amount)],
     lookup |-> L.lookup \cup {Key(payer, payee)}]

\* Lines 670-690: the transfer k -> rcv of amt folded into the ledger.
FoldTransfer(L, k, rcv, amt) ==
    LET yek == Key(rcv, k)
        existing == Amount(L.rslt, rcv, k)
    IN  IF yek \in L.lookup
        THEN IF existing >= amt
             THEN [L EXCEPT !.rslt =
                     IF existing - amt = 0
                     THEN DeletePayment(L.rslt, rcv, k)
                     ELSE [L.rslt EXCEPT ![rcv] = MapPut(@, k, existing - amt)]]
             ELSE upsertAmount([rslt   |-> DeletePayment(L.rslt, rcv, k),
                                lookup |-> L.lookup \ {yek}],
                               k, rcv, amt - existing)
        ELSE upsertAmount(L, k, rcv, amt)

EmptyLedger == [rslt |-> EmptyMap, lookup |-> {}]

\* The (payer, payee) pairs a Settlement holds.
Pairs(s) == UNION {{<<k, rcv>> : rcv \in DOMAIN s[k]} : k \in DOMAIN s}

(***************************************************************************)
(* The state.                                                              *)
(***************************************************************************)
VARIABLES
    emailLookup,   \* trip.emailLookup: email -> user id
    Expenses,      \* trip.Expenses
    totalExpense,  \* trip.totalExpense
    endDate,       \* end_date of the trip's row (0 while the trip is active)
    pc,            \* where Complete stands: idle, event, settle, fold, done
    ret,           \* what Complete returned: none, ok, err
    eIdx,          \* Complete: index of the expense being handled
    rslt,          \* Complete: the Settlement being built
    lookup,        \* Complete: the keys of the lookup map
    p, i, j, avg,  \* Settle: the sorted copy, the two indices, the fair share
    settleRslt,    \* Settle: its rslt, then the map Complete ranges over
    curK,          \* Complete: the payer whose Payments are being ranged over
    folded,        \* Complete: the (payer, payee) pairs already ranged over
    avgTotal,      \* fair share alone: expense.amount, as digits
    avgN,          \* fair share alone: n
    avgOut,        \* fair share alone: avg as digits, NoAvg before line 621
    db,            \* the database: the rows of its five tables
    clock,         \* time.Now(), in units of half a day
    inflight,      \* the calls in progress: the trips loaded by settlement
                   \* requests (SpecApi), the calls of LoadOrCreateUser (SpecRace)
    resp,          \* the request answered last and its response
    closed,        \* history: per trip_id, the ledger of its first close
    mem,           \* the *Trip a caller of the package holds
    loaded,        \* the *Trip the caller loaded last
    call,          \* the package call that returned last, and its result
    usr,           \* the *User a caller of the package holds
    saved          \* history: per user_id, Verified of the last committed Save

numVars == <<avgTotal, avgN, avgOut>>

storeVars == <<db, clock, inflight, resp, closed, mem, loaded, call, usr, saved>>

\* The variables the engine's actions leave alone.
extVars == <<numVars, storeVars>>

vars == <<emailLookup, Expenses, totalExpense, endDate, pc, ret, eIdx, rslt,
          lookup, p, i, j, avg, settleRslt, curK, folded, extVars>>

tripVars == <<emailLookup, Expenses, totalExpense>>
settleVars == <<p, i, j, avg, settleRslt>>
rangeVars == <<curK, folded>>

engineVars == <<tripVars, endDate, pc, ret, eIdx, rslt, lookup, settleVars,
                rangeVars>>

NoKey == <<>>
NoAvg == <<-1>>

\* The database after the schema of entrypoint.sh: five empty tables.  A
\* table with an AUTOINCREMENT key is the sequence of its rows, row n
\* having the key n; no row is ever deleted.
EmptyDB ==
    [tuser |-> <<>>, trip |-> <<>>, participant |-> <<>>, expense |-> <<>>,
     expense_participant |-> <<>>]

NoTrip == [ID |-> -1]
NoUser == [ID |-> -1]
NoCall == [op |-> "none"]

(***************************************************************************)
(* The lists of participants handed to AddExpense: the addresses f and the *)
(* amounts g of a list of n entries.                                       *)
(***************************************************************************)
ParticipantList(f, g) == [m \in DOMAIN f |-> [Email |-> f[m], Paid |-> g[m]]]

Ordered(f) ==
    \A m1, m2 \in DOMAIN f : m1 < m2 => EmailIndex(f[m1]) < EmailIndex(f[m2])

\* "ordered": well-formed, the addresses in the order of EmailOrder;
\* "any": any list.
Shaped(shape, f) == IF shape = "ordered" THEN Ordered(f) ELSE TRUE

(***************************************************************************)
(* Init: the trip after NewTrip and the emailLookup assignments of Save.   *)
(***************************************************************************)
InitEngine(members) ==
    /\ emailLookup = [e \in members |-> EmailIndex(e)]
    /\ Expenses = <<>>
    /\ totalExpense = 0
    /\ endDate = 0
    /\ pc = "idle"
    /\ ret = "none"
    /\ eIdx = 0
    /\ rslt = EmptyMap
    /\ lookup = {}
    /\ p = <<>>
    /\ i = 0
    /\ j = 0
    /\ avg = 0
    /\ settleRslt = EmptyMap
    /\ curK = NoKey
    /\ folded = {}

\* No fair share is being computed on its own.
InitNum ==
    /\ avgTotal = <<>>
    /\ avgN = 1
    /\ avgOut = NoAvg

\* An empty database and no caller.
InitStore ==
    /\ db = EmptyDB
    /\ clock = 1
    /\ inflight = <<>>
    /\ resp = NoCall
    /\ closed = EmptyMap
    /\ mem = NoTrip
    /\ loaded = NoTrip
    /\ call = NoCall
    /\ usr = NoUser
    /\ saved = EmptyMap

InitTrip(members) == InitEngine(members) /\ InitNum /\ InitStore

Init == InitTrip(TripMembers)

(***************************************************************************)
(* Actions.                                                                *)
(***************************************************************************)
\* Trip.AddExpense, called with a list of at most maxLen entries over the
\* given addresses and amounts; an unknown participant is an error and
\* changes nothing.
AddExpenseUpTo(emails, paids, maxLen, shape, cap) ==
    /\ pc = "idle"
    /\ Len(Expenses) < cap
    /\ \E n \in 1..maxLen :
        \E f \in [1..n -> emails] :
            /\ Shaped(shape, f)
            /\ \E g \in [1..n -> paids] :
                LET participants == ParticipantList(f, g)
                IN  IF AllKnown(emailLookup, participants)
                    THEN LET expense == NewExpense(emailLookup, participants)
                         IN  /\ Expenses' = Append(Expenses, expense)
                             /\ totalExpense' = totalExpense + expense.amount
                    ELSE UNCHANGED <<Expenses, totalExpense>>
    /\ UNCHANGED <<emailLookup, endDate, pc, ret, eIdx, rslt, lookup>>
    /\ UNCHANGED <<settleVars, rangeVars>>
    /\ UNCHANGED extVars

\* Trip.Complete, lines 662-666.
CompleteBegin ==
    /\ pc = "idle"
    /\ pc' = "event"
    /\ eIdx' = 1
    /\ rslt' = EmptyMap
    /\ lookup' = {}
    /\ UNCHANGED <<tripVars, endDate, ret, settleVars, rangeVars>>
    /\ UNCHANGED extVars

\* The call e.Settle() for the next expense, lines 614-623.
SettleBegin ==
    /\ pc = "event"
    /\ eIdx <= Len(Expenses)
    /\ LET st == SettleStart(Expenses[eIdx])
       IN  /\ p' = st.p
           /\ i' = st.i
           /\ j' = st.j
           /\ settleRslt' = st.rslt
    /\ avg' = SettleAvg(Expenses[eIdx])
    /\ pc' = "settle"
    /\ UNCHANGED <<tripVars, endDate, ret, eIdx, rslt, lookup, rangeVars>>
    /\ UNCHANGED extVars

\* One iteration of the loop of Settle, lines 625-644.
SettleStep ==
    /\ pc = "settle"
    /\ i < j
    /\ LET st == SettleIter([p |-> p, i |-> i, j |-> j, rslt |-> settleRslt], avg)
       IN  /\ p' = st.p
           /\ i' = st.i
           /\ j' = st.j
           /\ settleRslt' = st.rslt
    /\ UNCHANGED <<tripVars, endDate, pc, ret, eIdx, rslt, lookup, avg, rangeVars>>
    /\ UNCHANGED extVars

\* Settle returns rslt (line 645); Complete starts to range over it.
SettleReturn ==
    /\ pc = "settle"
    /\ i >= j
    /\ pc' = "fold"
    /\ p' = <<>>
    /\ i' = 0
    /\ j' = 0
    /\ curK' = NoKey
    /\ folded' = {}
    /\ UNCHANGED <<tripVars, endDate, ret, eIdx, rslt, lookup, avg, settleRslt>>
    /\ UNCHANGED extVars

\* The pairs the two range loops may visit next: Go ranges over a map in an
\* unspecified order, the inner map of one payer before the next payer.
NextPairs ==
    LET rest == Pairs(settleRslt) \ folded
        mine == {pr \in rest : pr[1] = curK}
    IN  IF mine # {} THEN mine ELSE rest

\* One iteration of the inner range loop, lines 669-691.
FoldStep ==
    /\ pc = "fold"
    /\ \E pr \in NextPairs :
        LET L == FoldTransfer([rslt |-> rslt, lookup |-> lookup],
                              pr[1], pr[2], settleRslt[pr[1]][pr[2]])
        IN  /\ rslt' = L.rslt
            /\ lookup' = L.lookup
            /\ curK' = pr[1]
            /\ folded' = folded \cup {pr}
    /\ UNCHANGED <<tripVars, endDate, pc, ret, eIdx, settleVars>>
    /\ UNCHANGED extVars

\* The range loops are over: on to the next expense (line 667).
NextExpense ==
    /\ pc = "fold"
    /\ NextPairs = {}
    /\ pc' = "event"
    /\ eIdx' = eIdx + 1
    /\ settleRslt' = EmptyMap
    /\ avg' = 0
    /\ curK' = NoKey
    /\ folded' = {}
    /\ UNCHANGED <<tripVars, endDate, ret, rslt, lookup, p, i, j>>
    /\ UNCHANGED extVars

\* Lines 694-719: the transaction that sets end_date; it commits and rslt
\* is returned, or it fails, is rolled back, and nil and the error are.
CompleteEnd ==
    /\ pc = "event"
    /\ eIdx > Len(Expenses)
    /\ pc' = "done"
    /\ \/ /\ ret' = "ok"
          /\ endDate' = 1
          /\ UNCHANGED rslt
       \/ /\ ret' = "err"
          /\ rslt' = EmptyMap
          /\ UNCHANGED endDate
    /\ UNCHANGED <<tripVars, eIdx, lookup, settleVars, rangeVars>>
    /\ UNCHANGED extVars

Complete == CompleteBegin \/ SettleBegin \/ SettleStep \/ SettleReturn
            \/ FoldStep \/ NextExpense \/ CompleteEnd

AddExpense ==
    AddExpenseUpTo(TripMembers, 0..MaxPaid, Cardinality(TripMembers), "ordered",
                   MaxExpenses)

Next == AddExpense \/ Complete

Spec == Init /\ [][Next]_vars

\* One expense of up to MaxParticipants participants, settled and folded.
\* Settle never compares addresses, so a list in another order is an ordered
\* list with the addresses renamed.
InitSettle == InitTrip(SettleMembers)

AddExpenseSettle ==
    AddExpenseUpTo(SettleMembers, 0..MaxSettlePaid, MaxParticipants, "ordered", 1)

NextSettle == AddExpenseSettle \/ Complete

SpecSettle == InitSettle /\ [][NextSettle]_vars

\* One expense from a list AddExpense does not refuse.
AddExpenseAny == AddExpenseUpTo(RawEmails, (-1)..MaxPaid, 2, "any", 1)

NextAny == AddExpenseAny \/ Complete

SpecAny == Init /\ [][NextAny]_vars

(***************************************************************************)
(* The fair share as line 621 computes it, in float64:                     *)
(*     avg := int(float64(expense.amount)/float64(n) + 0.5)                *)
(* A natural number is the sequence of its digits in base 2^LimbBits, the  *)
(* least significant first, so that amounts beyond the 53 bits of a        *)
(* float64 mantissa can be written.  Every float64 operation rounds its    *)
(* exact result to 53 significant bits, ties to even.                      *)
(***************************************************************************)
MantissaBits == 53

LimbBits == 2 * 6 + 1

Base == 2 ^ LimbBits

RECURSIVE Digits(_)
Digits(x) == IF x = 0 THEN <<>> ELSE <<x % Base>> \o Digits(x \div Base)

RECURSIVE Value(_)
Value(b) == IF b = <<>> THEN 0 ELSE b[1] + Base * Value(Tail(b))

\* Without the zeros above the highest digit.
RECURSIVE Trim(_)
Trim(b) ==
    IF b # <<>> /\ b[Len(b)] = 0 THEN Trim(SubSeq(b, 1, Len(b) - 1)) ELSE b

\* 2^e.
Pow2(e) ==
    [m \in 1..(e \div LimbBits + 1) |->
        IF m = e \div LimbBits + 1 THEN 2 ^ (e % LimbBits) ELSE 0]

RECURSIVE AddDigits(_, _, _)
AddDigits(a, b, carry) ==
    IF a = <<>> /\ b = <<>>
    THEN IF carry = 1 THEN <<1>> ELSE <<>>
    ELSE LET t == (IF a = <<>> THEN 0 ELSE a[1]) + (IF b = <<>> THEN 0 ELSE b[1])
                      + carry
         IN  <<t % Base>> \o AddDigits(IF a = <<>> THEN a ELSE Tail(a),
                                       IF b = <<>> THEN b ELSE Tail(b),
                                       t \div Base)

\* Quotient and remainder of b by a small divisor d, by long division.
RECURSIVE DivDigits(_, _)
DivDigits(b, d) ==
    IF b = <<>> THEN [q |-> <<>>, r |-> 0]
    ELSE LET hi == DivDigits(Tail(b), d)
             t  == Base * hi.r + b[1]
         IN  [q |-> <<t \div d>> \o hi.q, r |-> t % d]

RECURSIVE BitLen(_)
BitLen(v) == IF v = 0 THEN 0 ELSE 1 + BitLen(v \div 2)

\* The number of bits of b, its highest digit not 0.
NumBits(b) == (Len(b) - 1) * LimbBits + BitLen(b[Len(b)])

\* b rounded to MantissaBits significant bits, ties to even; sticky tells
\* that the exact value lies strictly above b.  The r lowest bits go: a
\* whole digits and the c lowest bits of digit a + 1.
RoundToFloat64(b, sticky) ==
    IF b = <<>> \/ NumBits(b) <= MantissaBits THEN b
    ELSE LET r     == NumBits(b) - MantissaBits
             a     == r \div LimbBits
             c     == r % LimbBits
             unit  == 2 ^ c
             limb  == b[a + 1]
             first == IF c > 0 THEN limb % unit ELSE b[a]
             half  == IF c > 0 THEN unit \div 2 ELSE Base \div 2
             below == IF c > 0 THEN a ELSE a - 1
             low   == \/ sticky
                      \/ first % half # 0
                      \/ \E m \in 1..below : b[m] # 0
             up    == first \div half = 1 /\ (low \/ (limb \div unit) % 2 = 1)
             kept  == [m \in 1..Len(b) |->
                          IF m <= a THEN 0
                          ELSE IF m = a + 1 THEN (limb \div unit) * unit
                          ELSE b[m]]
         IN  IF up THEN AddDigits(kept, Pow2(r), 0) ELSE kept

\* Line 621 for amount >= 0 and n >= 1.  The quotient and the sum are kept
\* with f digits after the point, enough for the quotient to have more
\* than MantissaBits bits before it is rounded.
Float64Avg(amount, n) ==
    LET f == (MantissaBits + 2 + BitLen(n)) \div LimbBits + 1
        x == RoundToFloat64(amount, FALSE)
        d == DivDigits([m \in 1..f |-> 0] \o x, n)
        q == RoundToFloat64(Trim(d.q), d.r # 0)
        s == RoundToFloat64(AddDigits(q, Pow2(f * LimbBits - 1), 0), FALSE)
    IN  SubSeq(s, f + 1, Len(s))

\* floor((2 * total + N) / (2 * N)): rounding half-up in exact arithmetic.
HalfUp(total, n) ==
    Trim(DivDigits(AddDigits(AddDigits(total, total, 0), Digits(n), 0), 2 * n).q)

\* The totals the fair share is computed for: small ones, and the ones
\* around the end of the integers a float64 holds exactly.
AvgTotals ==
    {Digits(x) : x \in 0..MaxSmallTotal}
        \cup {AddDigits(Pow2(e), Digits(x), 0) :
                 e \in {MantissaBits - 1, MantissaBits}, x \in 0..MaxOffset}

InitAvg ==
    /\ InitEngine(TripMembers)
    /\ avgTotal \in AvgTotals
    /\ avgN \in 1..MaxParticipants
    /\ avgOut = NoAvg
    /\ InitStore

\* Line 621 alone.
ComputeAvg ==
    /\ avgOut = NoAvg
    /\ avgOut' = Float64Avg(avgTotal, avgN)
    /\ UNCHANGED <<avgTotal, avgN>>
    /\ UNCHANGED <<engineVars, storeVars>>

NextAvg == ComputeAvg

SpecAvg == InitAvg /\ [][NextAvg]_vars

\* On the amounts of Spec, SpecSettle and SpecAny the integer arithmetic of
\* Avg gives what line 621 gives.
AvgAgrees ==
    avgOut # NoAvg /\ Len(avgTotal) <= 1 =>
        Value(avgOut) = Avg(Value(avgTotal), avgN)

(***************************************************************************)
(* Complete as a function of the list of expenses, each Settlement ranged  *)
(* over in the order of EmailOrder (one of the orders Go may take).        *)
(***************************************************************************)
PairBefore(x, y) ==
    \/ EmailIndex(x[1]) < EmailIndex(y[1])
    \/ EmailIndex(x[1]) = EmailIndex(y[1]) /\ EmailIndex(x[2]) < EmailIndex(y[2])

FirstPair(todo) == CHOOSE x \in todo : \A y \in todo \ {x} : PairBefore(x, y)

RECURSIVE FoldPairs(_, _, _)
FoldPairs(L, s, todo) ==
    IF todo = {} THEN L
    ELSE LET pr == FirstPair(todo)
         IN  FoldPairs(FoldTransfer(L, pr[1], pr[2], s[pr[1]][pr[2]]), s, todo \ {pr})

RECURSIVE CompleteRun(_, _)
CompleteRun(L, es) ==
    IF es = <<>> THEN L
    ELSE LET s == SettleFn(Head(es))
         IN  CompleteRun(FoldPairs(L, s, Pairs(s)), Tail(es))

CompleteFn(es) == CompleteRun(EmptyLedger, es).rslt

(***************************************************************************)
(* The procedure of the design document ("Full settlement record"): add up *)
(* the transfers of all expenses per payer and payee, then merge each      *)
(* reciprocal pair into the entry with the greater amount.                 *)
(***************************************************************************)
RECURSIVE SumTransfers(_, _, _)
SumTransfers(es, k, rcv) ==
    IF es = <<>> THEN 0
    ELSE Amount(SettleFn(Head(es)), k, rcv) + SumTransfers(Tail(es), k, rcv)

TwoPhaseEntries(es, ids) ==
    {<<pr[1], pr[2], SumTransfers(es, pr[1], pr[2]) - SumTransfers(es, pr[2], pr[1])>> :
        pr \in {x \in ids \X ids :
                   SumTransfers(es, x[1], x[2]) > SumTransfers(es, x[2], x[1])}}

(***************************************************************************)
(* Vocabulary of the properties.                                           *)
(***************************************************************************)
Abs(x) == IF x < 0 THEN -x ELSE x

RECURSIVE SumOf(_, _)
SumOf(f, S) ==
    IF S = {} THEN 0
    ELSE LET x == CHOOSE y \in S : TRUE IN f[x] + SumOf(f, S \ {x})

Identities == DOMAIN emailLookup

Present(s, payer, payee) == payer \in DOMAIN s /\ payee \in DOMAIN s[payer]

\* A well-formed event: at least one participant, no negative amount, no
\* identity twice.
WellFormed(expense) ==
    /\ Len(expense.Participants) >= 1
    /\ \A n \in DOMAIN expense.Participants : expense.Participants[n].Paid >= 0
    /\ \A n, m \in DOMAIN expense.Participants :
          expense.Participants[n].Email = expense.Participants[m].Email => n = m

AllWellFormed == \A n \in DOMAIN Expenses : WellFormed(Expenses[n])

\* Settle has returned for Expenses[eIdx] and settleRslt is what it returned.
Settled == pc = "fold"

Event == Expenses[eIdx]

NumParticipants == Len(Event.Participants)

Sent(s, email) == IF email \in DOMAIN s THEN SumOf(s[email], DOMAIN s[email]) ELSE 0

Received(s, email) ==
    SumOf([k \in DOMAIN s |-> MapGet(s[k], email)], DOMAIN s)

\* paid + amounts sent - amounts received, for participant n of the event.
Effective(n) ==
    Event.Participants[n].Paid + Sent(settleRslt, Event.Participants[n].Email)
        - Received(settleRslt, Event.Participants[n].Email)

Discrepancy ==
    SumOf([n \in DOMAIN Event.Participants |-> Abs(Effective(n) - avg)],
          DOMAIN Event.Participants)

Returned == pc = "done" /\ ret = "ok"

Reorderings(es) ==
    {[n \in DOMAIN es |-> es[f[n]]] :
        f \in {g \in [DOMAIN es -> DOMAIN es] : \A a, b \in DOMAIN es : g[a] = g[b] => a = b}}

(***************************************************************************)
(* C1: netting invariant.  In every state of Complete, for well-formed     *)
(* events, no two distinct identities A and B have both rslt[A][B] and     *)
(* rslt[B][A] present, and every present entry is strictly positive.       *)
(***************************************************************************)
C1_NettingInvariant ==
    AllWellFormed =>
        /\ \A A, B \in Identities :
              A # B => ~(Present(rslt, A, B) /\ Present(rslt, B, A))
        /\ \A e \in Entries(rslt) : e[3] > 0

(***************************************************************************)
(* C2: for well-formed events the entries Complete returns are those of    *)
(* the documented two-phase procedure (sum per payer and payee, then merge *)
(* reciprocal pairs).                                                      *)
(***************************************************************************)
C2_EqualsTwoPhase ==
    Returned /\ AllWellFormed =>
        Entries(rslt) = TwoPhaseEntries(Expenses, Identities)

NettingStep(k, rcv, a, e) ==
    /\ e > a => /\ Present(rslt', rcv, k) /\ rslt'[rcv][k] = e - a
                /\ ~Present(rslt', k, rcv)
    /\ e = a => ~Present(rslt', rcv, k) /\ ~Present(rslt', k, rcv)
    /\ e < a => /\ Present(rslt', k, rcv) /\ rslt'[k][rcv] = a - e
                /\ ~Present(rslt', rcv, k)
    /\ \A x, y \in Identities :
          {x, y} # {k, rcv} =>
              /\ Present(rslt', x, y) <=> Present(rslt, x, y)
              /\ Amount(rslt', x, y) = Amount(rslt, x, y)

FoldOfReverse ==
    /\ pc = "fold"
    /\ folded' # folded
    /\ AllWellFormed
    /\ \A pr \in folded' \ folded : Present(rslt, pr[2], pr[1])

(***************************************************************************)
(* C3: netting step.  A fold of k -> rcv of amount a into a ledger holding *)
(* rcv -> k = e leaves rcv -> k = e - a alone when e > a, nothing when     *)
(* e = a, k -> rcv = a - e alone when e < a, and every other pair as it    *)
(* was.                                                                    *)
(***************************************************************************)
C3_NettingStep ==
    [][FoldOfReverse =>
          \A pr \in folded' \ folded :
              NettingStep(pr[1], pr[2], settleRslt[pr[1]][pr[2]],
                          rslt[pr[2]][pr[1]])]_vars

(***************************************************************************)
(* C4: event-order independence.  For well-formed events, the entries      *)
(* Complete returns are those it returns for every reordering of the list. *)
(***************************************************************************)
C4_OrderIndependent ==
    Returned /\ AllWellFormed =>
        \A q \in Reorderings(Expenses) : Entries(CompleteFn(q)) = Entries(rslt)

NoNegativePaid ==
    \A n \in DOMAIN Expenses :
        \A m \in DOMAIN Expenses[n].Participants :
            Expenses[n].Participants[m].Paid >= 0

(***************************************************************************)
(* C5: no self-transfer.  No transfer Settle emits and no entry of the     *)
(* ledger of Complete has its payer as payee, whatever event AddExpense    *)
(* accepted.                                                               *)
(***************************************************************************)
C5_NoSelfTransfer ==
    NoNegativePaid =>
        /\ \A k \in DOMAIN settleRslt : k \notin DOMAIN settleRslt[k]
        /\ \A k \in DOMAIN rslt : k \notin DOMAIN rslt[k]

Unsettled == {n \in DOMAIN Event.Participants : Effective(n) # avg}

(***************************************************************************)
(* C7: only one participant absorbs the rounding remainder: when Settle    *)
(* has returned for a well-formed event, at most one participant's         *)
(* paid + sent - received differs from avg.                                *)
(***************************************************************************)
C7_OnlyOneAbsorbs ==
    Settled /\ WellFormed(Event) => Cardinality(Unsettled) <= 1

Remainder == Event.amount - NumParticipants * avg

(***************************************************************************)
(* C7 as amended: the participants whose paid + sent - received differs    *)
(* from avg all differ from it in the same direction, and their            *)
(* differences add up to |total - N * avg|; so at most |total - N * avg|   *)
(* participants absorb the remainder, which may be more than one.          *)
(***************************************************************************)
C7_RemainderOneSided ==
    Settled /\ WellFormed(Event) =>
        /\ \/ \A n \in DOMAIN Event.Participants : Effective(n) >= avg
           \/ \A n \in DOMAIN Event.Participants : Effective(n) <= avg
        /\ Discrepancy = Abs(Remainder)
        /\ Cardinality(Unsettled) <= Abs(Remainder)

\* Transfers were emitted and two participants are left short of avg.
C7_Witness ==
    /\ Settled /\ WellFormed(Event)
    /\ settleRslt # EmptyMap
    /\ Cardinality(Unsettled) >= 2

InSettle == pc = "settle" \/ pc = "fold"

AllZero(expense) ==
    \A n \in DOMAIN expense.Participants : expense.Participants[n].Paid = 0

(***************************************************************************)
(* C9: for an event whose paid amounts are all 0, and for an event of one  *)
(* participant, Settle emits no transfer at any point of its loop and      *)
(* returns the empty Settlement.                                           *)
(***************************************************************************)
C9_NothingToSettle ==
    InSettle /\ (AllZero(Event) \/ NumParticipants = 1) => settleRslt = EmptyMap

\* Settle has returned for an all-zero event of several participants.
C9_Witness ==
    /\ Settled
    /\ NumParticipants >= 2
    /\ AllZero(Event)
    /\ settleRslt = EmptyMap

(***************************************************************************)
(* C10: determinism.  Whatever order the maps are ranged over, Complete    *)
(* returns for a list of expenses the ledger (payer keys, payee keys and   *)
(* amounts) of its run in the order of EmailOrder.                         *)
(***************************************************************************)
C10_Deterministic ==
    Returned /\ AllWellFormed => rslt = CompleteFn(Expenses)

(***************************************************************************)
(* C11: rounding policy.  The fair share line 621 computes for a total     *)
(* >= 0 and N >= 1 is floor((2 * total + N) / (2 * N)).                    *)
(***************************************************************************)
C11_HalfUp ==
    avgOut # NoAvg => avgOut = HalfUp(avgTotal, avgN)

(***************************************************************************)
(* C17: duplicate participants of an expense are a single instance.  No    *)
(* expense AddExpense appended holds two entries of one identity.          *)
(***************************************************************************)
C17_NoDuplicateIdentity ==
    \A n \in DOMAIN Expenses :
        \A m1, m2 \in DOMAIN Expenses[n].Participants :
            Expenses[n].Participants[m1].UserID = Expenses[n].Participants[m2].UserID
                => m1 = m2

(***************************************************************************)
(* The persistence layer (user.go, trip.go) and the HTTP handlers          *)
(* (main.go).  Every transaction runs alone (SQLite serialises writers),   *)
(* and the only statements that fail are those that break a constraint of  *)
(* the schema.  A result is a record; err is "nil" or the error.           *)
(***************************************************************************)
\* The unit of time is half a day.
DayLen == 2

\* time.Local lies LocalOffset units east of UTC.
LocalOffset == 1

\* The Unix time of time.Time{}, January 1 of year 1, long before the epoch.
YearOne == -(2 ^ 30)

\* A time.Time: its Unix time and its location.
TimeOf(sec, loc) == [sec |-> sec, loc |-> loc]

ZoneOffset(loc) == IF loc = "Local" THEN LocalOffset ELSE 0

\* time.Unix(sec, 0) and time.UnixMicro(usec): a local time.
Unix(sec) == TimeOf(sec, "Local")

\* t.UTC()
UTC(t) == TimeOf(t.sec, "UTC")

zeroTime == Unix(0)

\* t.IsZero(): t is January 1 of year 1; zeroTime is not.
IsZero(t) == t.sec = YearOne

\* t.Equal(u) compares the instants, t.Before(u) too; == on two Date
\* structs compares the locations as well, and is = here.
TimeEqual(t, u) == t.sec = u.sec

Before(t, u) == t.sec < u.sec

\* NewDate: midnight of the day of t in the location of t.
NewDate(t) ==
    TimeOf(((t.sec + ZoneOffset(t.loc)) \div DayLen) * DayLen - ZoneOffset(t.loc),
           t.loc)

\* time.Parse(time.DateOnly, ...) of the day-th day after the epoch.
ParseDate(day) == TimeOf(day * DayLen, "UTC")

normalizeName(name) == [n \in DOMAIN name |-> ToLowerChar(name[n])]

\* The order of the bytes of the characters in use.
CharOrder == <<">", "A", "a", "b", "c", "z">>

CharIndex(ch) == CHOOSE n \in 1..Len(CharOrder) : CharOrder[n] = ch

\* s < t on Go strings.
RECURSIVE StringLess(_, _)
StringLess(s, t) ==
    IF t = <<>> THEN FALSE
    ELSE IF s = <<>> THEN TRUE
    ELSE IF s[1] # t[1] THEN CharIndex(s[1]) < CharIndex(t[1])
    ELSE StringLess(Tail(s), Tail(t))

(***************************************************************************)
(* user.go                                                                 *)
(***************************************************************************)
NewUser(email) == [ID |-> 0, Email |-> normalizeEmail(email), Verified |-> FALSE]

\* userSelect finding no row, whatever the table holds.
NoUserID(d, email) == 0

\* userSelect: the user_id of the row with this email, 0 for sql.ErrNoRows.
UserIDOf(d, email) ==
    IF \E n \in DOMAIN d.tuser : d.tuser[n].email = email
    THEN CHOOSE n \in DOMAIN d.tuser : d.tuser[n].email = email
    ELSE 0

\* User.Save.  committed tells whether the transaction was committed; the
\* err declared at line 119 shadows the one Save returns, so the rollback
\* for cnt != 1 returns nil.
UserSave(d, u) ==
    IF u.ID # 0
    THEN LET cnt == IF u.ID \in DOMAIN d.tuser THEN 1 ELSE 0
         IN  IF cnt # 1
             THEN [db |-> d, usr |-> u, err |-> "nil", committed |-> FALSE]
             ELSE [db |-> [d EXCEPT !.tuser[u.ID].verified = u.Verified],
                   usr |-> u, err |-> "nil", committed |-> TRUE]
    ELSE IF UserIDOf(d, u.Email) # 0
         THEN [db |-> d, usr |-> u, err |-> "UNIQUE constraint failed: tuser.email",
               committed |-> FALSE]
         ELSE LET d1 == [d EXCEPT !.tuser =
                            Append(@, [email |-> u.Email, verified |-> u.Verified])]
              IN  [db |-> d1, usr |-> [u EXCEPT !.ID = Len(d1.tuser)],
                   err |-> "nil", committed |-> TRUE]

\* LoadOrCreateUser.  Created: lines 76-84, r being what usr.Save returned.
LoadOrCreateUser(d, email) ==
    LET u  == NewUser(email)
        id == UserIDOf(d, u.Email)
        Created(r) ==
            IF r.err # "nil"
            THEN [db |-> r.db, usr |-> NoUser, err |-> r.err]
            ELSE [db |-> r.db, usr |-> r.usr, err |-> "nil"]
    IN  IF id # 0
        THEN [db |-> d,
              usr |-> [u EXCEPT !.ID = id, !.Verified = d.tuser[id].verified],
              err |-> "nil"]
        ELSE Created(UserSave(d, u))

(***************************************************************************)
(* A caller of user.go: it loads or creates users, builds User values of   *)
(* its own, sets Verified and saves.                                       *)
(***************************************************************************)
\* Addresses as the callers of the store write them.
StoreEmails == {<<"a">>, <<"A">>, <<"b">>}

\* The user_id values a caller may write into a User of its own.
MadeUpIDs == 0..Cardinality(StoreEmails)

CallLoadOrCreateUser ==
    \E email \in StoreEmails :
        LET r == LoadOrCreateUser(db, email)
        IN  /\ db' = r.db
            /\ usr' = r.usr
            /\ call' = [op |-> "LoadOrCreateUser", email |-> email, err |-> r.err]
            /\ saved' = IF r.db # db
                        THEN MapPut(saved, r.usr.ID, r.usr.Verified)
                        ELSE saved
            /\ UNCHANGED <<clock, inflight, resp, closed, mem, loaded>>
            /\ UNCHANGED <<engineVars, numVars>>

\* usr := &User{id, email, verified}
MakeUser ==
    \E id \in MadeUpIDs, email \in StoreEmails, verified \in BOOLEAN :
        /\ usr' = [ID |-> id, Email |-> email, Verified |-> verified]
        /\ call' = [op |-> "User"]
        /\ UNCHANGED <<db, clock, inflight, resp, closed, mem, loaded, saved>>
        /\ UNCHANGED <<engineVars, numVars>>

\* usr.Verified = verified; usr.Save(ctx, db)
CallUserSave ==
    /\ usr # NoUser
    /\ \E verified \in BOOLEAN :
        LET r == UserSave(db, [usr EXCEPT !.Verified = verified])
        IN  /\ db' = r.db
            /\ usr' = r.usr
            /\ call' = [op |-> "User.Save", err |-> r.err, committed |-> r.committed]
            /\ saved' = IF r.err = "nil"
                        THEN MapPut(saved, r.usr.ID, verified)
                        ELSE saved
            /\ UNCHANGED <<clock, inflight, resp, closed, mem, loaded>>
            /\ UNCHANGED <<engineVars, numVars>>

NextUser == CallLoadOrCreateUser \/ MakeUser \/ CallUserSave

SpecUser == Init /\ [][NextUser]_vars

\* The rows of tuser that hold this address.
UserRows(email) == {n \in DOMAIN db.tuser : db.tuser[n].email = email}

(***************************************************************************)
(* C19: LoadOrCreateUser is idempotent up to case.  Every call returns,    *)
(* without error, a user with a non-zero ID and the lower-cased address;   *)
(* the address has exactly one row, whose key is that ID; Verified is what *)
(* the last successful Save of that user wrote; and a call for an address  *)
(* that has a row returns the key of that row and adds no row.             *)
(***************************************************************************)
C19_LoadOrCreateIdempotent ==
    /\ [](call.op = "LoadOrCreateUser" =>
            /\ call.err = "nil"
            /\ usr.ID # 0
            /\ usr.Email = normalizeEmail(call.email)
            /\ UserRows(normalizeEmail(call.email)) = {usr.ID}
            /\ usr.Verified = MapGet(saved, usr.ID))
    /\ [][call'.op = "LoadOrCreateUser" =>
            \A n \in UserRows(normalizeEmail(call'.email)) :
                usr'.ID = n /\ Len(db'.tuser) = Len(db.tuser)]_vars

\* A second call for an address, in another case, after Verified was saved.
C19_Witness ==
    /\ call.op = "LoadOrCreateUser"
    /\ call.email = <<"A">>
    /\ usr.ID = 1
    /\ usr.Verified
    /\ Len(db.tuser) = 2

(***************************************************************************)
(* trip.go: NewTrip and Trip.Save                                          *)
(***************************************************************************)
NewTrip(name, owner, description, startDate, participants) ==
    LET o == NewUser(owner)
    IN  [ID           |-> 0,
         Name         |-> name,
         Owner        |-> o,
         StartDate    |-> startDate,
         EndDate      |-> zeroTime,
         Description  |-> description,
         Participants |-> SelectSeq([n \in DOMAIN participants |->
                                        NewUser(participants[n])],
                                    LAMBDA u : u.Email # o.Email),
         Expenses     |-> <<>>,
         nameLower    |-> normalizeName(name),
         createdAt    |-> zeroTime,
         emailLookup  |-> EmptyMap,
         totalExpense |-> 0]

\* The user as it is, or loaded or created when it has no ID.
LoadedUser(d, u) ==
    IF u.ID = 0 THEN LoadOrCreateUser(d, u.Email)
    ELSE [db |-> d, usr |-> u, err |-> "nil"]

\* Lines 424-431: the participants n, n + 1, ... without an ID are loaded
\* or created, each in a transaction of its own; r is the result for
\* participant n.
RECURSIVE SaveUsersFrom(_, _)
SaveUsersFrom(st, n) ==
    LET Saved(r) ==
            IF r.err # "nil"
            THEN [db |-> r.db, trip |-> [st.trip EXCEPT !.Participants[n] = r.usr],
                  err |-> r.err]
            ELSE SaveUsersFrom(
                     [db |-> r.db,
                      trip |-> [st.trip EXCEPT
                                   !.Participants[n] = r.usr,
                                   !.emailLookup = MapPut(@, r.usr.Email, r.usr.ID)],
                      err |-> "nil"],
                     n + 1)
    IN  IF n > Len(st.trip.Participants) THEN st
        ELSE Saved(LoadedUser(st.db, st.trip.Participants[n]))

\* Lines 416-431: the owner, r being what was loaded or created for it,
\* then the participants.
SaveUsers(d, t) ==
    LET Owned(r) ==
            IF r.err # "nil"
            THEN [db |-> r.db, trip |-> [t EXCEPT !.Owner = r.usr], err |-> r.err]
            ELSE SaveUsersFrom(
                     [db |-> r.db,
                      trip |-> [t EXCEPT
                                   !.Owner = r.usr,
                                   !.emailLookup = MapPut(@, r.usr.Email, r.usr.ID)],
                      err |-> "nil"],
                     1)
    IN  Owned(LoadedUser(d, t.Owner))

\* peopleInsert for people[n], people[n + 1], ...; the primary key of
\* participant is (trip_id, user_id).
RECURSIVE InsertPeople(_, _, _, _)
InsertPeople(d, id, people, n) ==
    IF n > Len(people) THEN [db |-> d, err |-> "nil"]
    ELSE IF \E m \in DOMAIN d.participant :
                /\ d.participant[m].trip_id = id
                /\ d.participant[m].user_id = people[n].user_id
         THEN [db |-> d, err |-> "UNIQUE constraint failed: participant"]
         ELSE InsertPeople(
                  [d EXCEPT !.participant =
                      Append(@, [trip_id |-> id, user_id |-> people[n].user_id,
                                 is_owner |-> people[n].is_owner])],
                  id, people, n + 1)

\* if x.createdAt.IsZero() { x.createdAt = now }, lines 382-384 and 467-469.
WithCreatedAt(x, now) == [x EXCEPT !.createdAt = IF IsZero(@) THEN now ELSE @]

\* createTrip, inside the transaction of Save.  Stamped: lines 385-397,
\* tripInsert with the values of t1 and trip.ID the key of the new row.
\* Inserted: lines 399-409, peopleInsert for the owner, then for the
\* participants, r being its result.
createTrip(d, t, now) ==
    LET WithTrip(r, t1) == [db |-> r.db, trip |-> t1, err |-> r.err]
        Inserted(d1, t1) ==
            WithTrip(InsertPeople(
                         d1, t1.ID,
                         <<[user_id |-> t1.Owner.ID, is_owner |-> TRUE]>>
                             \o [n \in DOMAIN t1.Participants |->
                                    [user_id  |-> t1.Participants[n].ID,
                                     is_owner |-> FALSE]],
                         1),
                     t1)
        Stamped(t1) ==
            Inserted([d EXCEPT !.trip =
                         Append(@, [name        |-> t1.Name,
                                    name_lower  |-> t1.nameLower,
                                    created_at  |-> t1.createdAt.sec,
                                    start_date  |-> t1.StartDate.sec,
                                    end_date    |-> t1.EndDate.sec,
                                    description |-> t1.Description])],
                     [t1 EXCEPT !.ID = Len(d.trip) + 1])
    IN  Stamped(WithCreatedAt(t, now))

\* Lines 478-493: participantInsert for the participants m, m + 1, ... of
\* expense e; the primary key of expense_participant is (expense_id,
\* user_id).  A participant without UserID that is not in emailLookup ends
\* the loop with err still nil (failed tells that Save rolls back).
RECURSIVE InsertExpenseParts(_, _, _, _)
InsertExpenseParts(d, lk, e, m) ==
    IF m > Len(e.Participants) THEN [db |-> d, e |-> e, err |-> "nil", failed |-> FALSE]
    ELSE LET ep == e.Participants[m]
             id == IF ep.UserID = 0 THEN MapGet(lk, normalizeEmail(ep.Email))
                   ELSE ep.UserID
             e1 == [e EXCEPT !.Participants[m].UserID = id]
         IN  IF ep.UserID = 0 /\ normalizeEmail(ep.Email) \notin DOMAIN lk
             THEN [db |-> d, e |-> e, err |-> "nil", failed |-> TRUE]
             ELSE IF \E x \in DOMAIN d.expense_participant :
                        /\ d.expense_participant[x].expense_id = e.ID
                        /\ d.expense_participant[x].user_id = id
             THEN [db |-> d, e |-> e1, failed |-> TRUE,
                   err |-> "UNIQUE constraint failed: expense_participant"]
             ELSE InsertExpenseParts(
                      [d EXCEPT !.expense_participant =
                          Append(@, [expense_id |-> e.ID, user_id |-> id,
                                     amount |-> ep.Paid])],
                      lk, e1, m + 1)

\* Lines 462-495: the expenses n, n + 1, ... of the trip that have no ID.
\* Stamped: expenseInsert (line 470) with the values of e, its key the new
\* e.ID.  Parts: r is the result of the participants of expense n.
RECURSIVE SaveExpensesFrom(_, _, _)
SaveExpensesFrom(st, now, n) ==
    LET Parts(r) ==
            IF r.failed
            THEN [db |-> r.db, trip |-> [st.trip EXCEPT !.Expenses[n] = r.e],
                  err |-> r.err, failed |-> TRUE]
            ELSE SaveExpensesFrom(
                     [db |-> r.db, trip |-> [st.trip EXCEPT !.Expenses[n] = r.e],
                      err |-> "nil", failed |-> FALSE],
                     now, n + 1)
        Stamped(e) ==
            Parts(InsertExpenseParts(
                      [st.db EXCEPT !.expense =
                          Append(@, [trip_id     |-> st.trip.ID,
                                     txn_date    |-> e.Date.sec,
                                     created_at  |-> e.createdAt.sec,
                                     description |-> e.Description])],
                      st.trip.emailLookup,
                      [e EXCEPT !.ID = Len(st.db.expense) + 1],
                      1))
    IN  IF n > Len(st.trip.Expenses) THEN st
        ELSE IF st.trip.Expenses[n].ID # 0 THEN SaveExpensesFrom(st, now, n + 1)
        ELSE Stamped(WithCreatedAt(st.trip.Expenses[n], now))

\* Save without the test of line 442: the trip is created by every call.
SaveAnew(d, t, now) ==
    LET End(x) ==
            [db |-> x.db, trip |-> x.trip, err |-> x.err, committed |-> ~x.failed]
        Created(c) ==
            End(SaveExpensesFrom([db |-> c.db, trip |-> c.trip, err |-> "nil",
                                  failed |-> FALSE], now, 1))
        Txn(u) == Created(createTrip(u.db, u.trip, now))
    IN  Txn(SaveUsers(d, t))

\* Trip.Save.  db is the database afterwards, trip the Trip in memory
\* afterwards, err what Save returns, committed whether its transaction
\* was committed: a rollback gives back the database as the users left it.
\* u is the result of lines 416-431, c of lines 441-447, x of 462-495.
TripSave(d, t, now) ==
    LET End(u, x) ==
            IF x.failed
            THEN [db |-> u.db, trip |-> x.trip, err |-> x.err, committed |-> FALSE]
            ELSE [db |-> x.db, trip |-> x.trip, err |-> "nil", committed |-> TRUE]
        Created(u, c) ==
            IF c.err # "nil"
            THEN [db |-> u.db, trip |-> c.trip, err |-> c.err, committed |-> FALSE]
            ELSE End(u, SaveExpensesFrom(
                            [db |-> c.db, trip |-> c.trip, err |-> "nil",
                             failed |-> FALSE], now, 1))
        Txn(u) ==
            IF u.err # "nil"
            THEN [db |-> u.db, trip |-> u.trip, err |-> u.err, committed |-> FALSE]
            ELSE Created(u,
                         IF u.trip.ID = 0 THEN createTrip(u.db, u.trip, now)
                         ELSE [db |-> u.db, trip |-> u.trip, err |-> "nil"])
    IN  Txn(SaveUsers(d, t))

(***************************************************************************)
(* trip.go: LoadTripByID, LoadTripsByOwner, Complete.  A SELECT yields the *)
(* rows in the order of their insertion; expenseSelect orders them by      *)
(* created_at and keeps that order among equal values.                     *)
(***************************************************************************)
UserOfRow(d, id) ==
    [ID |-> id, Email |-> d.tuser[id].email, Verified |-> d.tuser[id].verified]

\* participantSelect, lines 544-552.
ExpenseParticipants(d, eid) ==
    LET rows == SelectSeq(d.expense_participant,
                          LAMBDA row : /\ row.expense_id = eid
                                       /\ row.user_id \in DOMAIN d.tuser)
    IN  [n \in DOMAIN rows |->
            [Email  |-> d.tuser[rows[n].user_id].email,
             UserID |-> rows[n].user_id,
             Paid   |-> rows[n].amount]]

\* ORDER BY created_at: key n moves left while its created_at is smaller.
RECURSIVE OrderLeft(_, _, _)
OrderLeft(d, ids, n) ==
    IF n > 1 /\ d.expense[ids[n]].created_at < d.expense[ids[n - 1]].created_at
    THEN OrderLeft(d, [ids EXCEPT ![n] = ids[n - 1], ![n - 1] = ids[n]], n - 1)
    ELSE ids

RECURSIVE OrderByCreatedAt(_, _, _)
OrderByCreatedAt(d, ids, n) ==
    IF n > Len(ids) THEN ids ELSE OrderByCreatedAt(d, OrderLeft(d, ids, n), n + 1)

\* loadExpenses: the Expenses of the trip.  Loaded: lines 530-555, the
\* Expense of row eid with the participants ps.  The rows are those of
\* expenseSelect, in its order.
LoadedExpenses(d, id) ==
    LET Loaded(eid, ps) ==
            [ID           |-> eid,
             Date         |-> NewDate(UTC(Unix(d.expense[eid].txn_date))),
             Description  |-> d.expense[eid].description,
             Participants |-> ps,
             createdAt    |-> UTC(Unix(d.expense[eid].created_at)),
             amount       |-> SumPaid(ps)]
        Of(ids) ==
            [n \in DOMAIN ids |-> Loaded(ids[n], ExpenseParticipants(d, ids[n]))]
    IN  Of(OrderByCreatedAt(
               d,
               SelectSeq([k \in DOMAIN d.expense |-> k],
                         LAMBDA k : d.expense[k].trip_id = id),
               2))

RECURSIVE SumAmounts(_)
SumAmounts(es) == IF es = <<>> THEN 0 ELSE es[1].amount + SumAmounts(Tail(es))

\* The Trip that lines 269-284 (and 238-252) build from the row id of trip:
\* the scan of the row, loadParts for the rows people of peopleSelect (the
\* rows of participant of the trip whose user exists) and loadExpenses
\* giving es.  loadParts, lines 302-316: the owner is the user of the owner
\* row read last, the participants are the users of the other rows.
LoadedTrip(d, id) ==
    LET Owner(owners) ==
            IF owners = <<>> THEN NoUser
            ELSE UserOfRow(d, owners[Len(owners)].user_id)
        Users(rows) == [n \in DOMAIN rows |-> UserOfRow(d, rows[n].user_id)]
        Of(people, es) ==
            [ID           |-> id,
             Name         |-> d.trip[id].name,
             Owner        |-> Owner(SelectSeq(people, LAMBDA r : r.is_owner)),
             StartDate    |-> NewDate(UTC(Unix(d.trip[id].start_date))),
             EndDate      |-> UTC(Unix(d.trip[id].end_date)),
             Description  |-> d.trip[id].description,
             Participants |-> Users(SelectSeq(people, LAMBDA r : ~r.is_owner)),
             Expenses     |-> es,
             nameLower    |-> d.trip[id].name_lower,
             createdAt    |-> UTC(Unix(d.trip[id].created_at)),
             emailLookup  |->
                 [e \in {d.tuser[people[n].user_id].email : n \in DOMAIN people} |->
                     UserIDOf(d, e)],
             totalExpense |-> SumAmounts(es)]
    IN  Of(SelectSeq(d.participant,
                     LAMBDA row : row.trip_id = id /\ row.user_id \in DOMAIN d.tuser),
           LoadedExpenses(d, id))

LoadTripByID(d, id) ==
    IF id \in DOMAIN d.trip
    THEN [trip |-> LoadedTrip(d, id), err |-> "nil"]
    ELSE [trip |-> NoTrip, err |-> "sql: no rows in result set"]

\* tripByOwnerSelect: the keys of the rows of trip with end_date 0 that
\* have an owner row of participant whose user has this address.
TripsByOwner(d, email) ==
    {id \in DOMAIN d.trip :
        /\ d.trip[id].end_date = 0
        /\ \E m \in DOMAIN d.participant :
              /\ d.participant[m].trip_id = id
              /\ d.participant[m].is_owner
              /\ d.participant[m].user_id \in DOMAIN d.tuser
              /\ d.tuser[d.participant[m].user_id].email = email}

\* LoadTripsByOwner: the maps it may return.  rslt[trip.nameLower] = trip
\* (line 252) keeps, of the rows with one name_lower, the one scanned
\* last, and the order of the rows is the database's choice.
LoadTripsByOwner(d, owner) ==
    LET ids   == TripsByOwner(d, normalizeEmail(owner))
        names == {d.trip[id].name_lower : id \in ids}
    IN  {[name \in names |-> LoadedTrip(d, f[name])] :
            f \in {g \in [names -> ids] :
                      \A name \in names : d.trip[g[name]].name_lower = name}}

\* Complete for the trip t in memory: the ledger of lines 662-693 and the
\* tripComplete of lines 694-712, which names no condition on end_date.
\* The addresses of the store hold no '>', so the ledger does not depend
\* on the order in which the maps are ranged over.
TripComplete(d, t, now) ==
    [db   |-> [d EXCEPT !.trip =
                  [id \in DOMAIN d.trip |->
                      IF id = t.ID THEN [d.trip[id] EXCEPT !.end_date = now.sec]
                      ELSE d.trip[id]]],
     rslt |-> CompleteFn(t.Expenses),
     err  |-> "nil"]

\* AddExpense that appends the participants it knows before it returns the
\* error for the one it does not know.
AddExpenseKnown(t, date, description, participants) ==
    LET known == SelectSeq(participants,
                           LAMBDA x : normalizeEmail(x.Email) \in DOMAIN t.emailLookup)
        ne    == NewExpense(t.emailLookup, known)
        e     == [ID           |-> 0,
                  Date         |-> date,
                  Description  |-> description,
                  Participants |-> ne.Participants,
                  createdAt    |-> zeroTime,
                  amount       |-> ne.amount]
    IN  [trip |-> [t EXCEPT !.Expenses = Append(@, e),
                            !.totalExpense = @ + e.amount],
         err  |-> IF AllKnown(t.emailLookup, participants) THEN "nil"
                  ELSE "Expense participant not part of the trip"]

(***************************************************************************)
(* Trip.AddExpense on a Trip of the store: the Expense of lines 562-584,   *)
(* refused before anything is appended when an address is unknown.         *)
(***************************************************************************)
TripAddExpense(t, date, description, participants) ==
    IF ~AllKnown(t.emailLookup, participants)
    THEN [trip |-> t, err |-> "Expense participant not part of the trip"]
    ELSE LET ne == NewExpense(t.emailLookup, participants)
             e  == [ID           |-> 0,
                    Date         |-> date,
                    Description  |-> description,
                    Participants |-> ne.Participants,
                    createdAt    |-> zeroTime,
                    amount       |-> ne.amount]
         IN  [trip |-> [t EXCEPT !.Expenses = Append(@, e),
                                 !.totalExpense = @ + e.amount],
              err |-> "nil"]

(***************************************************************************)
(* main.go: the handlers.  getSettlement loads the trip and writes         *)
(* end_date in a later transaction; other requests may run in between.     *)
(***************************************************************************)
TripNames == {<<"a">>, <<"A">>}

\* The owners the requests name.
OwnerEmails == {<<"A">>, <<"b">>}

Descriptions == {<<"d">>}

\* The days a request may name.
RequestDays == {1}

\* The participants the requests for a trip name: nobody, one address, an
\* address twice in two cases, two addresses.
TripLists ==
    {<<>>, << <<"a">> >>, << <<"b">> >>, << <<"a">>, <<"A">> >>,
     << <<"A">>, <<"b">> >>}

\* The participants the requests for an expense name, as the JSON object
\* is ranged over (its keys are distinct strings): one payer alone, a payer
\* and another participant, one participant in two cases.
ExpenseLists ==
    {ParticipantList(<< <<"a">> >>, <<2>>),
     ParticipantList(<< <<"A">>, <<"b">> >>, <<2, 0>>),
     ParticipantList(<< <<"a">>, <<"A">> >>, <<2, 0>>)}

\* time.Now()
Now == Unix(clock)

Tick ==
    /\ clock < MaxClock
    /\ clock' = clock + 1
    /\ UNCHANGED <<db, inflight, resp, closed, mem, loaded, call, usr, saved>>
    /\ UNCHANGED <<engineVars, numVars>>

\* postTrip.  Posted: lines 118-125, r is what Save gave.
postTrip ==
    LET Posted(name, owner, day, participants, r) ==
            /\ db' = r.db
            /\ resp' = [op |-> "postTrip", name |-> name, owner |-> owner,
                        start_date |-> day, participants |-> participants,
                        status |-> IF r.err = "nil" THEN 201 ELSE 400,
                        trip_id |-> r.trip.ID]
    IN  /\ Len(db.trip) < MaxTrips
        /\ \E name \in TripNames, owner \in OwnerEmails, day \in RequestDays,
              description \in Descriptions, participants \in TripLists :
            Posted(name, owner, day, participants,
                   TripSave(db,
                            NewTrip(name, owner, description,
                                    NewDate(ParseDate(day)), participants),
                            Now))
        /\ UNCHANGED <<clock, inflight, closed, mem, loaded, call, usr, saved>>
        /\ UNCHANGED <<engineVars, numVars>>

getTrips ==
    /\ \E owner \in OwnerEmails :
        \E trips \in LoadTripsByOwner(db, owner) :
            resp' = [op |-> "getTrips", owner |-> owner, status |-> 200,
                     trips |-> [name \in DOMAIN trips |-> trips[name].ID]]
    /\ UNCHANGED <<db, clock, inflight, closed, mem, loaded, call, usr, saved>>
    /\ UNCHANGED <<engineVars, numVars>>

\* postExpense.  Loaded: lines 152-170, l is what LoadTripByID gave.
\* Added: lines 171-175, a is what AddExpense gave.  Saved: lines 176-186,
\* r is what Save gave.
postExpense ==
    LET Saved(id, r) ==
            /\ db' = r.db
            /\ resp' = IF r.err # "nil"
                       THEN [op |-> "postExpense", trip_id |-> id, status |-> 400]
                       ELSE [op |-> "postExpense", trip_id |-> id, status |-> 202,
                             expense_id |-> r.trip.Expenses[Len(r.trip.Expenses)].ID]
        Added(id, a) ==
            IF a.err # "nil"
            THEN /\ resp' = [op |-> "postExpense", trip_id |-> id, status |-> 400]
                 /\ UNCHANGED db
            ELSE Saved(id, TripSave(db, a.trip, Now))
        Loaded(id, l, date, description, participants) ==
            IF l.err # "nil"
            THEN /\ resp' = [op |-> "postExpense", trip_id |-> id, status |-> 404]
                 /\ UNCHANGED db
            ELSE Added(id, TripAddExpense(l.trip, date, description, participants))
    IN  /\ Len(db.expense) < MaxStoreExpenses
        /\ \E id \in 1..MaxTrips, day \in RequestDays, description \in Descriptions,
              participants \in ExpenseLists :
            Loaded(id, LoadTripByID(db, id), NewDate(ParseDate(day)),
                   description, participants)
        /\ UNCHANGED <<clock, inflight, closed, mem, loaded, call, usr, saved>>
        /\ UNCHANGED <<engineVars, numVars>>

Without(q, n) == SubSeq(q, 1, n - 1) \o SubSeq(q, n + 1, Len(q))

\* getSettlement, lines 217-226: l is what LoadTripByID gave.
getSettlementLoad ==
    LET Loaded(id, l) ==
            IF l.err # "nil"
            THEN /\ resp' = [op |-> "getSettlement", trip_id |-> id, status |-> 404]
                 /\ UNCHANGED inflight
            ELSE /\ inflight' = Append(inflight, [trip |-> l.trip])
                 /\ UNCHANGED resp
    IN  /\ Len(inflight) < MaxInflight
        /\ \E id \in 1..MaxTrips : Loaded(id, LoadTripByID(db, id))
        /\ UNCHANGED <<db, clock, closed, mem, loaded, call, usr, saved>>
        /\ UNCHANGED <<engineVars, numVars>>

\* getSettlement, lines 227-231: r is what Complete gave.
getSettlementComplete ==
    LET Done(id, r) ==
            /\ db' = r.db
            /\ resp' = [op |-> "getSettlement", trip_id |-> id, status |-> 200,
                        settlement |-> r.rslt]
            /\ closed' = IF id \in DOMAIN closed THEN closed
                         ELSE MapPut(closed, id, r.rslt)
    IN  /\ \E n \in DOMAIN inflight :
            /\ Done(inflight[n].trip.ID, TripComplete(db, inflight[n].trip, Now))
            /\ inflight' = Without(inflight, n)
        /\ UNCHANGED <<clock, mem, loaded, call, usr, saved>>
        /\ UNCHANGED <<engineVars, numVars>>

NextApi == Tick \/ postTrip \/ getTrips \/ postExpense \/ getSettlementLoad
           \/ getSettlementComplete

SpecApi == Init /\ [][NextApi]_vars

(***************************************************************************)
(* C12: a closed trip is not closed again with another result.  Every      *)
(* settlement a request returns for a trip is the ledger of the first      *)
(* close of that trip.                                                     *)
(***************************************************************************)
C12_SameLedgerAfterClose ==
    resp.op = "getSettlement" /\ resp.status = 200 =>
        resp.settlement = closed[resp.trip_id]

(***************************************************************************)
(* C13: at most one authoritative close.  Once the end_date of a trip is   *)
(* not 0, no step changes it.                                              *)
(***************************************************************************)
C13_CloseOnce ==
    [][\A id \in DOMAIN db.trip :
          db.trip[id].end_date # 0 => db'.trip[id].end_date = db.trip[id].end_date]_vars

\* The address of the owner row of a trip.
OwnerEmail(id) ==
    LET m == CHOOSE x \in DOMAIN db.participant :
                 db.participant[x].trip_id = id /\ db.participant[x].is_owner
    IN  db.tuser[db.participant[m].user_id].email

\* The trips of an owner on which no Complete has succeeded.
ActiveTrips(owner) ==
    {id \in DOMAIN db.trip : id \notin DOMAIN closed /\ OwnerEmail(id) = owner}

(***************************************************************************)
(* C14: the listing of active trips.  The trips getTrips returns for an    *)
(* owner are exactly the trips of that owner on which no Complete has      *)
(* succeeded.                                                              *)
(***************************************************************************)
C14_ActiveTripsListed ==
    resp.op = "getTrips" =>
        {resp.trips[name] : name \in DOMAIN resp.trips}
            = ActiveTrips(normalizeEmail(resp.owner))

\* The rows of trip with the owner, the lower-cased name and the start date
\* of the request answered last.
SameTrip ==
    {id \in DOMAIN db.trip :
        /\ OwnerEmail(id) = normalizeEmail(resp.owner)
        /\ db.trip[id].name_lower = normalizeName(resp.name)
        /\ db.trip[id].start_date = ParseDate(resp.start_date).sec}

(***************************************************************************)
(* C15: creating a trip is an upsert.  After a trip was posted, one row    *)
(* only has its owner, lower-cased name and start date, and the response   *)
(* names that row.                                                         *)
(***************************************************************************)
C15_CreateIsUpsert ==
    resp.op = "postTrip" /\ resp.status = 201 => SameTrip = {resp.trip_id}

\* The addresses of the rows of participant of a trip that are not its
\* owner's, one per row.
StoredParticipants(id) ==
    LET rows == SelectSeq(db.participant,
                          LAMBDA row : row.trip_id = id /\ ~row.is_owner)
    IN  [n \in DOMAIN rows |-> db.tuser[rows[n].user_id].email]

(***************************************************************************)
(* C16: a trip is created with the unique list of its participants.  Every *)
(* post of a trip succeeds, and the participants stored for it are the     *)
(* distinct lower-cased addresses of the list without the owner's, each    *)
(* stored once.                                                            *)
(***************************************************************************)
C16_UniqueParticipants ==
    resp.op = "postTrip" =>
        /\ resp.status = 201
        /\ LET stored == StoredParticipants(resp.trip_id)
               wanted == {normalizeEmail(resp.participants[n]) :
                             n \in DOMAIN resp.participants}
                             \ {normalizeEmail(resp.owner)}
           IN  /\ {stored[n] : n \in DOMAIN stored} = wanted
               /\ Len(stored) = Cardinality(wanted)
(***************************************************************************)
(* trip.go: Trip.Equals and Expense.Equals.  sort.Sort works in place, so  *)
(* a comparison leaves both operands sorted as far as it got; a result is  *)
(* the answer and the two operands afterwards.                             *)
(***************************************************************************)
\* Users.Less, user.go lines 41-46.
UsersLess(x, y) == IF x.ID = y.ID THEN StringLess(x.Email, y.Email) ELSE x.ID < y.ID

\* Expenses.Less, lines 135-140.
ExpensesLess(x, y) == IF x.ID = y.ID THEN Before(x.Date, y.Date) ELSE x.ID < y.ID

\* sort.Sort(Users(xs)) when users, sort.Sort(Expenses(xs)) otherwise: on
\* at most 12 elements insertionSort, in which element n moves left while
\* it is Less than its left neighbour.
RECURSIVE SortLeft(_, _, _)
SortLeft(users, xs, n) ==
    IF n > 1 /\ IF users THEN UsersLess(xs[n], xs[n - 1])
                ELSE ExpensesLess(xs[n], xs[n - 1])
    THEN SortLeft(users, [xs EXCEPT ![n] = xs[n - 1], ![n - 1] = xs[n]], n - 1)
    ELSE xs

RECURSIVE SortFrom(_, _, _)
SortFrom(users, xs, n) ==
    IF n > Len(xs) THEN xs ELSE SortFrom(users, SortLeft(users, xs, n), n + 1)

\* Expense.Equals, lines 590-601: the checks before the participants are
\* sorted.  != on two Date structs compares the locations too.
ExpenseHeadEqual(e, e2) ==
    /\ e.ID = e2.ID
    /\ e.Date = e2.Date
    /\ e.Description = e2.Description
    /\ Len(e.Participants) = Len(e2.Participants)

\* Expense.Equals, lines 602-609.
ExpenseEquals(e, e2) ==
    /\ ExpenseHeadEqual(e, e2)
    /\ SortByAmount(e.Participants) = SortByAmount(e2.Participants)

\* The expense e after e.Equals(e2) or e2.Equals(e).
AfterExpenseEquals(e, e2) ==
    IF ExpenseHeadEqual(e, e2)
    THEN [e EXCEPT !.Participants = SortByAmount(@)]
    ELSE e

\* Trip.Equals, lines 354-360: the loop from expense n on.  Line 356
\* returns false when the two expenses ARE equal.
RECURSIVE EqualsExpensesFrom(_, _, _)
EqualsExpensesFrom(t, t2, n) ==
    IF n > Len(t.Expenses) THEN [eq |-> TRUE, trip |-> t, trip2 |-> t2]
    ELSE IF ExpenseEquals(t.Expenses[n], t2.Expenses[n])
    THEN [eq    |-> FALSE,
          trip  |-> [t EXCEPT !.Expenses[n] = AfterExpenseEquals(@, t2.Expenses[n])],
          trip2 |-> [t2 EXCEPT !.Expenses[n] = AfterExpenseEquals(@, t.Expenses[n])]]
    ELSE EqualsExpensesFrom(
             [t EXCEPT !.Expenses[n] = AfterExpenseEquals(@, t2.Expenses[n])],
             [t2 EXCEPT !.Expenses[n] = AfterExpenseEquals(@, t.Expenses[n])],
             n + 1)

\* t.Equals(t2).  Lines 322-341: the checks before anything is sorted.
\* Sorted: lines 344-353, x and x2 with their participants sorted.
\* Listed: lines 352-360, x and x2 with their expenses sorted.
TripEquals(t, t2) ==
    LET Listed(x, x2) == EqualsExpensesFrom(x, x2, 1)
        Sorted(x, x2) ==
            IF x.Participants # x2.Participants \/ Len(x.Expenses) # Len(x2.Expenses)
            THEN [eq |-> FALSE, trip |-> x, trip2 |-> x2]
            ELSE Listed([x EXCEPT !.Expenses = SortFrom(FALSE, @, 2)],
                        [x2 EXCEPT !.Expenses = SortFrom(FALSE, @, 2)])
    IN  IF \/ t.ID # t2.ID
           \/ t.Name # t2.Name
           \/ t.Owner # t2.Owner
           \/ ~TimeEqual(t.StartDate, t2.StartDate)
           \/ ~TimeEqual(t.EndDate, t2.EndDate)
           \/ t.Description # t2.Description
           \/ Len(t.Participants) # Len(t2.Participants)
        THEN [eq |-> FALSE, trip |-> t, trip2 |-> t2]
        ELSE Sorted([t EXCEPT !.Participants = SortFrom(TRUE, @, 2)],
                    [t2 EXCEPT !.Participants = SortFrom(TRUE, @, 2)])

(***************************************************************************)
(* A caller of package trip, as the tests are: it makes a Trip, adds       *)
(* expenses to it, saves it, loads it back and compares.  mem is the Trip  *)
(* the caller holds, loaded the Trip loaded last, call the last call with  *)
(* its inputs and what it returned.                                        *)
(***************************************************************************)
\* The start dates and expense dates of the caller: a date as main.go
\* parses it (UTC) and NewDate(time.Now()) as the tests make it (local).
CallerDates == {NewDate(ParseDate(1)), NewDate(Unix(1))}

\* The participants of the caller's expenses: the owner alone, the owner in
\* capitals with b, b with the owner, the owner alone having paid nothing,
\* and the owner twice.
CallerExpenseLists ==
    {ParticipantList(<< <<"a">> >>, <<2>>),
     ParticipantList(<< <<"A">>, <<"b">> >>, <<2, 0>>),
     ParticipantList(<< <<"b">>, <<"a">> >>, <<1, 3>>),
     ParticipantList(<< <<"a">> >>, <<0>>),
     ParticipantList(<< <<"a">>, <<"A">> >>, <<1, 1>>)}

\* NewTrip for owner A, alone or with participant b.
CallNewTrip ==
    /\ mem = NoTrip
    /\ \E startDate \in CallerDates, participants \in {<<>>, << <<"b">> >>} :
        /\ mem' = NewTrip(<<"A">>, <<"A">>, <<"d">>, startDate, participants)
        /\ call' = [op |-> "NewTrip"]
    /\ UNCHANGED <<db, clock, inflight, resp, closed, loaded, usr, saved>>
    /\ UNCHANGED <<engineVars, numVars>>

\* trip.AddExpense(date, description, participants): a is what it gave.
\* after tells that the call before this one was an AddExpense that
\* returned an error.
CallAddExpense ==
    LET Called(participants, a) ==
            /\ mem' = a.trip
            /\ call' = [op |-> "AddExpense", participants |-> participants,
                        err |-> a.err,
                        after |-> call.op = "AddExpense" /\ call.err # "nil"]
    IN  /\ mem # NoTrip
        /\ Len(mem.Expenses) < MaxStoreExpenses + 1
        /\ \E date \in CallerDates, participants \in CallerExpenseLists :
            Called(participants, TripAddExpense(mem, date, <<"d">>, participants))
        /\ UNCHANGED <<db, clock, inflight, resp, closed, loaded, usr, saved>>
        /\ UNCHANGED <<engineVars, numVars>>

\* trip.Save(ctx, db): r is what it gave.  again tells that the call before
\* this one was a Save that returned nil.
CallSave ==
    LET Saved(r) ==
            /\ db' = r.db
            /\ mem' = r.trip
            /\ call' = [op |-> "Save", err |-> r.err,
                        again |-> call.op = "Save" /\ call.err = "nil"]
    IN  /\ mem # NoTrip
        /\ Saved(TripSave(db, mem, Now))
        /\ UNCHANGED <<clock, inflight, resp, closed, loaded, usr, saved>>
        /\ UNCHANGED <<engineVars, numVars>>

\* t.Equals(mem), r being the result; how tells where t is from, and the
\* call records how many expenses mem has and whether its StartDate is UTC.
Compared(how, r) ==
    /\ mem' = r.trip2
    /\ call' = [op |-> "Equals", how |-> how, eq |-> r.eq,
                expenses |-> Len(mem.Expenses), utc |-> mem.StartDate.loc = "UTC"]

\* TestLoadTripByID: after a Save that succeeded, the trip is loaded by its
\* ID and compared with the one in memory.
CallLoadTripByID ==
    /\ call.op = "Save" /\ call.err = "nil"
    /\ \E r \in {TripEquals(LoadTripByID(db, mem.ID).trip, mem)} :
        Compared("LoadTripByID", r) /\ loaded' = r.trip
    /\ UNCHANGED <<db, clock, inflight, resp, closed, usr, saved>>
    /\ UNCHANGED <<engineVars, numVars>>

\* TestLoadTripsByOwner: the same with the entry of the owner's trips.
CallLoadTripsByOwner ==
    /\ call.op = "Save" /\ call.err = "nil"
    /\ \E trips \in LoadTripsByOwner(db, mem.Owner.Email) :
        /\ mem.nameLower \in DOMAIN trips
        /\ \E r \in {TripEquals(trips[mem.nameLower], mem)} :
            Compared("LoadTripsByOwner", r) /\ loaded' = r.trip
    /\ UNCHANGED <<db, clock, inflight, resp, closed, usr, saved>>
    /\ UNCHANGED <<engineVars, numVars>>

\* mem.Equals(mem): both operands are the one Trip.
CallEqualsSelf ==
    /\ mem # NoTrip
    /\ Compared("self", TripEquals(mem, mem))
    /\ UNCHANGED <<db, clock, inflight, resp, closed, loaded, usr, saved>>
    /\ UNCHANGED <<engineVars, numVars>>

NextPkg == CallNewTrip \/ CallAddExpense \/ CallSave \/ CallLoadTripByID
           \/ CallLoadTripsByOwner \/ CallEqualsSelf

SpecPkg == Init /\ [][NextPkg]_vars

\* The addresses of the owner and of the participants of a trip.
Members(t) ==
    {t.Owner.Email} \cup {t.Participants[n].Email : n \in DOMAIN t.Participants}

\* Save or a load has put every member in emailLookup.
Registered(t) == Members(t) \subseteq DOMAIN t.emailLookup

\* The normalized addresses a list of participants names.
Named(participants) ==
    {normalizeEmail(participants[n].Email) : n \in DOMAIN participants}

(***************************************************************************)
(* C18: AddExpense refuses a participant that is not a member.  In every   *)
(* call of AddExpense: if some address of the list, normalized, is neither *)
(* the owner's nor a participant's, the call returns an error; a call that *)
(* returns an error leaves the trip as it was (no expense appended,        *)
(* totalExpense unchanged); a call that names members only, on a trip      *)
(* whose members Save or a load has registered, returns nil and appends    *)
(* one expense with the sum of its payments, also right after a call that  *)
(* failed.  And at all times every participant of every expense of the     *)
(* trip is a member of it.  (On a Trip that NewTrip made and Save has not  *)
(* seen yet, emailLookup is empty and no call can succeed.)                *)
(***************************************************************************)
C18_AddExpenseRefusesStranger ==
    /\ [](mem # NoTrip =>
            \A n \in DOMAIN mem.Expenses :
                \A m \in DOMAIN mem.Expenses[n].Participants :
                    mem.Expenses[n].Participants[m].Email \in Members(mem))
    /\ [][call'.op = "AddExpense" =>
            /\ ~(Named(call'.participants) \subseteq Members(mem))
                   => call'.err # "nil"
            /\ call'.err # "nil" => mem' = mem
            /\ Registered(mem) /\ Named(call'.participants) \subseteq Members(mem)
                   => /\ call'.err = "nil"
                      /\ Len(mem'.Expenses) = Len(mem.Expenses) + 1
                      /\ mem'.totalExpense
                             = mem.totalExpense + SumPaid(call'.participants)
                      /\ SubSeq(mem'.Expenses, 1, Len(mem.Expenses)) = mem.Expenses]_vars

\* A call with members only succeeded right after a call that was refused
\* for naming a stranger.
C18_Witness ==
    /\ call.op = "AddExpense"
    /\ call.err = "nil"
    /\ call.after
    /\ Len(mem.Expenses) >= 1
    /\ mem.totalExpense > 0

(***************************************************************************)
(* C20: the round trip of Save and a load.  Every comparison the caller    *)
(* makes answers true: the trip loaded by LoadTripByID after a Save that   *)
(* succeeded Equals the trip in memory, so does its entry in the map of    *)
(* LoadTripsByOwner, and a trip Equals itself.                             *)
(***************************************************************************)
C20_RoundTripEquals == call.op = "Equals" => call.eq

\* The sum of the amounts of the rows of expense_participant of expense eid.
StoredPaid(d, eid) ==
    LET RECURSIVE Sum(_)
        Sum(n) == IF n = 0 THEN 0
                  ELSE Sum(n - 1)
                       + (IF d.expense_participant[n].expense_id = eid
                          THEN d.expense_participant[n].amount ELSE 0)
    IN  Sum(Len(d.expense_participant))

(***************************************************************************)
(* C21: every stored expense was paid for.  At all times the amounts of    *)
(* the expense_participant rows of every row of expense add up to more     *)
(* than 0, and so do the payments of every expense of the trip in memory.  *)
(***************************************************************************)
C21_StoredExpensePaid ==
    /\ \A eid \in DOMAIN db.expense : StoredPaid(db, eid) > 0
    /\ mem # NoTrip =>
          \A n \in DOMAIN mem.Expenses : mem.Expenses[n].amount > 0

\* The event has a participant and no negative payment.
Sound(expense) ==
    /\ Len(expense.Participants) >= 1
    /\ \A n \in DOMAIN expense.Participants : expense.Participants[n].Paid >= 0

(***************************************************************************)
(* C22: malformed events fail fast.  AddExpense never appends an expense   *)
(* with an empty list of participants or with a negative payment, so every *)
(* expense of the trip has a participant and no negative payment, and the  *)
(* event Settle works on and the events behind the ledger Complete returns *)
(* are such expenses.                                                      *)
(***************************************************************************)
C22_MalformedRejected ==
    /\ \A n \in DOMAIN Expenses : Sound(Expenses[n])
    /\ InSettle => Sound(Event)

\* The identities the expenses of the trip name.
Spenders ==
    UNION {{Expenses[n].Participants[m].Email : m \in DOMAIN Expenses[n].Participants}
           : n \in DOMAIN Expenses}

\* No two pairs of spenders spell the same key.
KeysTellPairs ==
    \A a1, a2, b1, b2 \in Spenders :
        Key(a1, a2) = Key(b1, b2) => a1 = b1 /\ a2 = b2

(***************************************************************************)
(* C23: the seen-pair bookkeeping is exact.  At every point of the loops  *)
(* of Complete, lookup holds the key "payer>payee" if and only if          *)
(* rslt[payer][payee] is present, for all identities payer and payee that  *)
(* some expense names, and lookup holds nothing else.                      *)
(* (Stated for the trips whose expenses name no two pairs of identities    *)
(* that spell the same key: C1 is about those.)                            *)
(***************************************************************************)
C23_SeenPairsExact ==
    pc \in {"event", "settle", "fold"} /\ KeysTellPairs =>
        /\ \A payer, payee \in Spenders :
              Key(payer, payee) \in lookup <=> Present(rslt, payer, payee)
        /\ lookup \subseteq {Key(pr[1], pr[2]) : pr \in Spenders \X Spenders}

\* The iterations the loop of Settle has made so far: every iteration moves
\* one pointer by one or emits one transfer, and C24 has every transfer
\* open a new pair of settleRslt.
Iterations == i + (Len(p) - 1 - j) + Cardinality(Pairs(settleRslt))

(***************************************************************************)
(* C24: progress of the two-pointer loop of Settle, for an event of N      *)
(* well-formed participants.  An iteration that emits a transfer runs with *)
(* i < j, moves no pointer, and leaves p[i] or p[j] at avg; an iteration   *)
(* that finds p[i] or p[j] at avg moves a pointer; every iteration adds    *)
(* one to Iterations.  At all times of the loop Iterations is at most      *)
(* 2*(N-1) and the transfers emitted are at most N-1, and so are the       *)
(* transfers Settle returns.                                               *)
(***************************************************************************)
C24_TwoPointerProgress ==
    /\ [](pc = "settle" =>
            /\ Iterations <= 2 * (Len(p) - 1)
            /\ Cardinality(Pairs(settleRslt)) <= Len(p) - 1
            /\ Len(p) = NumParticipants)
    /\ [](Settled => Cardinality(Pairs(settleRslt)) <= NumParticipants - 1)
    /\ [][pc = "settle" /\ pc' = "settle" =>
            /\ i < j
            /\ Iterations' = Iterations + 1
            /\ settleRslt' # settleRslt =>
                  /\ i' = i /\ j' = j
                  /\ p'[i + 1].Paid = avg \/ p'[j + 1].Paid = avg
            /\ p[i + 1].Paid = avg \/ p[j + 1].Paid = avg =>
                  (i' = i + 1 /\ j' = j) \/ (i' = i /\ j' = j - 1)]_vars

\* The loop has ended after 2*(N-1) iterations, N-1 of them transfers, for
\* an event of three participants or more.
C24_Witness ==
    /\ pc = "settle"
    /\ i >= j
    /\ Len(p) >= 3
    /\ Iterations = 2 * (Len(p) - 1)
    /\ Cardinality(Pairs(settleRslt)) = Len(p) - 1

\* What the participant with this address paid for the event.
PaidOf(email) ==
    LET n == CHOOSE m \in DOMAIN Event.Participants :
                 Event.Participants[m].Email = email
    IN  Event.Participants[n].Paid

\* Those who pay and those who are paid in the transfers emitted so far.
Payers == {pr[1] : pr \in Pairs(settleRslt)}

Payees == {pr[2] : pr \in Pairs(settleRslt)}

(***************************************************************************)
(* C25: no overshoot within an event of well-formed participants.  While   *)
(* Settle runs and when it has returned: every payer paid less than avg    *)
(* and has sent at most avg - paid, every payee paid more than avg and has *)
(* received at most paid - avg, nobody is both, and every amount emitted   *)
(* is positive; in the loop the working amount of every participant is     *)
(* paid + sent - received, at most avg for a payer and at least avg for a  *)
(* payee.  And every transfer is emitted for a pair that has none yet and  *)
(* leaves the other pairs as they are.                                     *)
(***************************************************************************)
C25_NoOvershoot ==
    /\ [](InSettle =>
            /\ \A k \in Payers :
                  /\ PaidOf(k) < avg
                  /\ Sent(settleRslt, k) <= avg - PaidOf(k)
            /\ \A k \in Payees :
                  /\ PaidOf(k) > avg
                  /\ Received(settleRslt, k) <= PaidOf(k) - avg
            /\ Payers \cap Payees = {}
            /\ \A pr \in Pairs(settleRslt) : settleRslt[pr[1]][pr[2]] > 0)
    /\ [](pc = "settle" =>
            \A n \in DOMAIN p :
                /\ p[n].Paid = PaidOf(p[n].Email) + Sent(settleRslt, p[n].Email)
                                 - Received(settleRslt, p[n].Email)
                /\ p[n].Email \in Payers => p[n].Paid <= avg
                /\ p[n].Email \in Payees => p[n].Paid >= avg)
    /\ [][pc = "settle" /\ settleRslt' # settleRslt =>
            /\ ~Present(settleRslt, p[j + 1].Email, p[i + 1].Email)
            /\ Present(settleRslt', p[j + 1].Email, p[i + 1].Email)
            /\ \A pr \in Pairs(settleRslt) :
                  /\ Present(settleRslt', pr[1], pr[2])
                  /\ settleRslt'[pr[1]][pr[2]] = settleRslt[pr[1]][pr[2]]]_vars

\* Settle has returned three transfers or more, with a payer that has sent
\* all of avg - paid to two payees or more.
C25_Witness ==
    /\ Settled
    /\ Cardinality(Pairs(settleRslt)) >= 3
    /\ \E k \in Payers :
          /\ Cardinality(DOMAIN settleRslt[k]) >= 2
          /\ Sent(settleRslt, k) = avg - PaidOf(k)

(***************************************************************************)
(* C26: the ledger Complete returns has no empty payer.  Every payer key   *)
(* of the Settlement returned maps to one payee or more, so that the       *)
(* payer keys are as many as the identities that owe something.            *)
(***************************************************************************)
C26_NoEmptyPayer ==
    Returned =>
        /\ \A k \in DOMAIN rslt : DOMAIN rslt[k] # {}
        /\ Cardinality(DOMAIN rslt) = Cardinality({pr[1] : pr \in Pairs(rslt)})

\* Every ID the trip in memory carries is the key of a row of its table:
\* the trip's of a row of trip, an expense's of a row of expense of the trip.
IDsStored ==
    /\ mem.ID # 0 => mem.ID \in DOMAIN db.trip
    /\ \A n \in DOMAIN mem.Expenses :
          mem.Expenses[n].ID # 0 =>
              /\ mem.Expenses[n].ID \in DOMAIN db.expense
              /\ db.expense[mem.Expenses[n].ID].trip_id = mem.ID

(***************************************************************************)
(* C27: a Save that failed leaves memory consistent with the database.     *)
(* After every call of Save, rolled back or committed, every non-zero ID   *)
(* of the trip and of its expenses is the key of a stored row; and after a *)
(* Save that returned nil every expense of the trip has such an ID, so     *)
(* none was skipped.                                                       *)
(***************************************************************************)
C27_FailedSaveConsistent ==
    call.op = "Save" =>
        /\ IDsStored
        /\ call.err = "nil" => \A n \in DOMAIN mem.Expenses : mem.Expenses[n].ID # 0

(***************************************************************************)
(* C28: User.Save reports every failure.  Every call of User.Save that     *)
(* ends with its transaction rolled back returns an error; so does, in     *)
(* particular, the call for a user whose non-zero ID is the key of no row, *)
(* whose UPDATE affects no row.                                            *)
(***************************************************************************)
C28_SaveReportsFailure ==
    call.op = "User.Save" /\ ~call.committed => call.err # "nil"

(***************************************************************************)
(* LoadOrCreateUser called by several goroutines (gin serves every request *)
(* in one of its own, and Trip.Save calls LoadOrCreateUser before its      *)
(* transaction begins).  A call is at its SELECT, at usr.Save, or done;    *)
(* the SELECT and the transaction of Save are each one step, and steps of  *)
(* different calls interleave.                                             *)
(***************************************************************************)
\* Lines 66-73: the call is entered and usr := NewUser(email).
BeginLoadOrCreateUser ==
    /\ Len(inflight) < MaxInflight
    /\ \E email \in StoreEmails :
        inflight' = Append(inflight, [at |-> "select", email |-> email,
                                      usr |-> NewUser(email), err |-> "nil"])
    /\ UNCHANGED <<db, clock, resp, closed, mem, loaded, call, usr, saved>>
    /\ UNCHANGED <<engineVars, numVars>>

\* Lines 74-75 and 84: the row is scanned into usr and the call returns it,
\* or there is no row (sql.ErrNoRows) and the call goes on to usr.Save.
SelectUser ==
    /\ \E n \in DOMAIN inflight :
        LET c  == inflight[n]
            id == UserIDOf(db, c.usr.Email)
        IN  /\ c.at = "select"
            /\ inflight' =
                 [inflight EXCEPT ![n] =
                     IF id # 0
                     THEN [c EXCEPT !.at = "done",
                                    !.usr = [@ EXCEPT !.ID = id,
                                                      !.Verified = db.tuser[id].verified]]
                     ELSE [c EXCEPT !.at = "save"]]
    /\ UNCHANGED <<db, clock, resp, closed, mem, loaded, call, usr, saved>>
    /\ UNCHANGED <<engineVars, numVars>>

\* Lines 76-84: usr.Save and the return of the user or of the error.
SaveNewUser ==
    /\ \E n \in DOMAIN inflight :
        LET c == inflight[n]
            Saved(r) ==
                /\ db' = r.db
                /\ inflight' =
                     [inflight EXCEPT ![n] =
                         [c EXCEPT !.at = "done", !.err = r.err,
                                   !.usr = IF r.err # "nil" THEN NoUser ELSE r.usr]]
        IN  /\ c.at = "save"
            /\ Saved(UserSave(db, c.usr))
    /\ UNCHANGED <<clock, resp, closed, mem, loaded, call, usr, saved>>
    /\ UNCHANGED <<engineVars, numVars>>

NextRace == BeginLoadOrCreateUser \/ SelectUser \/ SaveNewUser

SpecRace == Init /\ [][NextRace]_vars

(***************************************************************************)
(* C29: concurrent user creation is safe.  Under every interleaving of the *)
(* calls of LoadOrCreateUser, every call that is done has returned no      *)
(* error and a user with a non-zero ID whose address has exactly one row,  *)
(* the one with that ID; so two calls for one address return the same ID.  *)
(***************************************************************************)
C29_ConcurrentCreateSafe ==
    \A n \in DOMAIN inflight :
        inflight[n].at = "done" =>
            /\ inflight[n].err = "nil"
            /\ inflight[n].usr.ID # 0
            /\ UserRows(inflight[n].usr.Email) = {inflight[n].usr.ID}

\* No expense of the trip names an identity twice.
NoTwice(t) ==
    \A n \in DOMAIN t.Expenses :
        \A m1, m2 \in DOMAIN t.Expenses[n].Participants :
            t.Expenses[n].Participants[m1].Email = t.Expenses[n].Participants[m2].Email
                => m1 = m2

\* The expenses of the trip that Save has not stored yet.
Unsaved(t) == {n \in DOMAIN t.Expenses : t.Expenses[n].ID = 0}

(***************************************************************************)
(* C30: Trip.Save is idempotent.  A Save right after a Save that returned  *)
(* nil returns nil and leaves every table and the trip in memory as they   *)
(* are.  On a trip none of whose expenses names an identity twice (every   *)
(* Save of which succeeds), a Save inserts one row of expense for each     *)
(* expense without ID and nothing else once the trip has its row, and      *)
(* after it the expenses of the trip have distinct IDs, their rows are the *)
(* rows of expense of the trip, and each has the payments of its           *)
(* participants.  Once the trip has its row, no step changes the tables    *)
(* trip and participant.                                                   *)
(***************************************************************************)
C30_SaveIdempotent ==
    /\ [][call'.op = "Save" /\ call'.again =>
            call'.err = "nil" /\ db' = db /\ mem' = mem]_vars
    /\ [][call'.op = "Save" /\ NoTwice(mem) =>
            /\ call'.err = "nil"
            /\ Len(db'.expense) = Len(db.expense) + Cardinality(Unsaved(mem))
            /\ Unsaved(mem) = {} /\ mem.ID # 0 => db' = db]_vars
    /\ [](call.op = "Save" /\ NoTwice(mem) =>
            /\ \A n \in DOMAIN mem.Expenses :
                  /\ mem.Expenses[n].ID \in DOMAIN db.expense
                  /\ db.expense[mem.Expenses[n].ID].trip_id = mem.ID
                  /\ StoredPaid(db, mem.Expenses[n].ID) = mem.Expenses[n].amount
                  /\ Len(ExpenseParticipants(db, mem.Expenses[n].ID))
                         = Len(mem.Expenses[n].Participants)
            /\ \A n1, n2 \in DOMAIN mem.Expenses :
                  mem.Expenses[n1].ID = mem.Expenses[n2].ID => n1 = n2
            /\ Cardinality({x \in DOMAIN db.expense : db.expense[x].trip_id = mem.ID})
                   = Len(mem.Expenses))
    /\ [][mem # NoTrip /\ mem.ID \in DOMAIN db.trip =>
            db'.trip = db.trip /\ db'.participant = db.participant]_vars

\* A second Save right after a Save that stored two expenses in all.
C30_Witness ==
    /\ call.op = "Save"
    /\ call.again
    /\ call.err = "nil"
    /\ Len(mem.Expenses) >= 2
    /\ Unsaved(mem) = {}
    /\ Len(db.expense) = Len(mem.Expenses)

====
